---- MODULE Spec2Model ----
(***************************************************************************)
(* Door geometry engine (package `geometry`): compute_door_geometry and    *)
(* the pipeline stages it sequences, modelled as operators over a request  *)
(* and a mutable defaults record.                                          *)
(*                                                                         *)
(* Numbers.  Lengths are floats in the source.  Here a length is an        *)
(* integer count of millionths of a unit (U(n) is n source units), the     *)
(* step of the grid being the tolerance eps = 1e-6 of geometry.utilis, so   *)
(* that the halvings of the source (x / 2.0) of whole units are exact and  *)
(* a length at the tolerance is a length of the model.  Arc samples use    *)
(* cosine tables in 1/10000.                                               *)
(***************************************************************************)
EXTENDS Integers, Sequences, FiniteSets, TLC

VARIABLES request, defaults, out, args, calls

vars == <<request, defaults, out, args, calls>>

----------------------------------------------------------------------------
(* Generic helpers *)

U(n) == 1000000 * n

Half(x) == x \div 2

Abs(x) == IF x < 0 THEN -x ELSE x

Min2(a, b) == IF a <= b THEN a ELSE b

Max2(a, b) == IF a >= b THEN a ELSE b

MinOf(S) == CHOOSE m \in S : \A e \in S : m <= e

MaxOf(S) == CHOOSE m \in S : \A e \in S : m >= e

Range(s) == { s[i] : i \in 1..Len(s) }

Xs(pts) == { pts[i][1] : i \in 1..Len(pts) }

Ys(pts) == { pts[i][2] : i \in 1..Len(pts) }

RECURSIVE Flatten(_)
Flatten(ss) == IF ss = <<>> THEN <<>> ELSE Head(ss) \o Flatten(Tail(ss))

----------------------------------------------------------------------------
(* Bounds of the exploration *)

MaxCalls == 2

MaxHoleLen == 4

----------------------------------------------------------------------------
(* String handling: str.strip().lower() over the tokens a request carries *)

NoOption == "None"

OptionTokens ==
    { NoOption, "Option1", "Option2", "Option3", "Option4", "Option5",
      "standard", "topfixed", "bottomfixed", "standard_double", "fourglass",
      " OPTION1 ", "4glass", "garbage" }

StripLower(s) ==
    CASE s = "Option1" -> "option1"
      [] s = "Option2" -> "option2"
      [] s = "Option3" -> "option3"
      [] s = "Option4" -> "option4"
      [] s = "Option5" -> "option5"
      [] s = " OPTION1 " -> "option1"
      [] s = "Single" -> "single"
      [] s = "Double" -> "double"
      [] s = "Normal" -> "normal"
      [] s = "Fire" -> "fire"
      [] s = NoOption -> ""
      [] OTHER -> s

(* o.startswith("option") and o[6:].isdigit(), then int(o[6:]); 0 when the
   test fails *)
OptionDigits(o) ==
    CASE o = "option1" -> 1
      [] o = "option2" -> 2
      [] o = "option3" -> 3
      [] o = "option4" -> 4
      [] o = "option5" -> 5
      [] OTHER -> 0

OptionN(n) ==
    CASE n = 1 -> "Option1"
      [] n = 2 -> "Option2"
      [] n = 3 -> "Option3"
      [] n = 4 -> "Option4"
      [] n = 5 -> "Option5"

(* hole_offset is a string, here a sequence of one-character strings *)
HoleChars == { "2", "x", "X", " ", "g" }

DigitVal(c) ==
    CASE c = "2" -> 2
      [] OTHER -> -1

RECURSIVE LowerNoSpace(_)
LowerNoSpace(s) ==
    IF s = <<>> THEN <<>>
    ELSE IF Head(s) = " " THEN LowerNoSpace(Tail(s))
    ELSE <<(IF Head(s) = "X" THEN "x" ELSE Head(s))>> \o LowerNoSpace(Tail(s))

(* str.strip() is non-empty iff some character is not a space *)
StripNonEmpty(s) == \E i \in 1..Len(s) : s[i] # " "

(* s.split("x"): the parts between the separators, empty parts kept *)
RECURSIVE SplitX(_, _)
SplitX(s, cur) ==
    IF s = <<>> THEN <<cur>>
    ELSE IF Head(s) = "x" THEN <<cur>> \o SplitX(Tail(s), <<>>)
    ELSE SplitX(Tail(s), Append(cur, Head(s)))

(* float(tok) succeeds on the tokens of this alphabet iff tok is a
   non-empty digit string *)
IsNumeric(tok) == tok # <<>> /\ \A i \in 1..Len(tok) : DigitVal(tok[i]) >= 0

RECURSIVE FloatOf(_)
FloatOf(tok) ==
    IF tok = <<>> THEN 0
    ELSE 10 * FloatOf(SubSeq(tok, 1, Len(tok) - 1)) + DigitVal(tok[Len(tok)])

----------------------------------------------------------------------------
(* fastapi_app.schemas_input.DefaultInfo.  The declared model has no
   double_door_gap, bending_width_double_door or fire_glass_top_margin_double
   field; `declares` lists those a defaults record carries (a subclass, or
   any object passed as request.defaults). *)

DefaultInfo ==
    [ door_minus_measurement_width |-> U(68),
      door_minus_measurement_height |-> U(70),
      bending_width |-> U(31),
      bending_height |-> U(24),
      bend_adjust |-> U(12),
      box_gap |-> U(30),
      box_width |-> U(22),
      box_height |-> U(112),
      glass_corner_radius |-> U(20),
      glass_segments |-> 8,
      circle_radius |-> U(5),
      left_circle_offset |-> U(40),
      top_circle_offset |-> U(150),
      keybox_width |-> U(70),
      keybox_height |-> U(40),
      keybox_bottom_offset |-> U(50),
      fire_glass_lr_margin |-> U(190),
      fire_glass_top_margin |-> U(170),
      fire_glass_bottom_margin |-> U(240),
      declares |-> {},
      double_door_gap |-> 0,
      bending_width_double_door |-> 0,
      fire_glass_top_margin_double |-> 0 ]

DoubleFields == { "double_door_gap", "bending_width_double_door" }

(* defaults records with the double-door fields set *)
ExtendedDefaults(gap, bwd) ==
    [ DefaultInfo EXCEPT !.declares = DoubleFields,
                         !.double_door_gap = U(gap),
                         !.bending_width_double_door = U(bwd) ]

WithTopMarginDouble(d, m) ==
    [ d EXCEPT !.declares = @ \cup { "fire_glass_top_margin_double" },
               !.fire_glass_top_margin_double = U(m) ]

Has(d, field) == field \in d.declares

(* getattr(defaults, "fire_glass_top_margin_double",
           defaults.fire_glass_top_margin) *)
TopMarginDouble(d) ==
    IF Has(d, "fire_glass_top_margin_double")
    THEN d.fire_glass_top_margin_double
    ELSE d.fire_glass_top_margin

----------------------------------------------------------------------------
(* geometry.prepare_dimensions *)

IsDouble(door) == StripLower(door.category) = "double"

(* the parse of door.hole_offset: ok iff two numeric tokens around one x *)
HoleOffsetParts(raw) == SplitX(LowerNoSpace(raw), <<>>)

HoleOffsetParses(raw) ==
    /\ StripNonEmpty(raw)
    /\ Len(HoleOffsetParts(raw)) = 2
    /\ IsNumeric(HoleOffsetParts(raw)[2])
    /\ IsNumeric(HoleOffsetParts(raw)[1])

(* the override with the tokens taken in the order "<left>x<top>" *)
ApplyHoleOffsetLeftFirst(raw, d) ==
    IF HoleOffsetParses(raw)
    THEN [ d EXCEPT !.left_circle_offset = U(FloatOf(HoleOffsetParts(raw)[1])),
                    !.top_circle_offset = U(FloatOf(HoleOffsetParts(raw)[2])) ]
    ELSE d

(* the override added to the offsets the object holds *)
ApplyHoleOffsetAdded(raw, d) ==
    IF HoleOffsetParses(raw)
    THEN [ d EXCEPT !.left_circle_offset = @ + U(FloatOf(HoleOffsetParts(raw)[2])),
                    !.top_circle_offset = @ + U(FloatOf(HoleOffsetParts(raw)[1])) ]
    ELSE d

(* defaults after the override of left_circle_offset and top_circle_offset *)
ApplyHoleOffset(raw, d) ==
    IF HoleOffsetParses(raw)
    THEN [ d EXCEPT !.left_circle_offset = U(FloatOf(HoleOffsetParts(raw)[2])),
                    !.top_circle_offset = U(FloatOf(HoleOffsetParts(raw)[1])) ]
    ELSE d

(* the validation with zero let through *)
NegativeDimensions(dims) ==
    dims.width_measurement < 0 \/ dims.height_measurement < 0

InvalidDimensions(dims) ==
    dims.width_measurement <= 0 \/ dims.height_measurement <= 0

(* the error prepare_dimensions raises, "" when it returns *)
PrepareError(req) ==
    IF InvalidDimensions(req.dimensions) THEN "InvalidDimension"
    ELSE IF IsDouble(req.door) /\ ~Has(req.defaults, "double_door_gap")
         THEN "AttributeError"
    ELSE IF ~Has(req.defaults, "bending_width_double_door")
         THEN "AttributeError"
    ELSE ""

PrepareParams(req) ==
    LET door == req.door
        dims == req.dimensions
        d == req.defaults
        frame_total_width == dims.width_measurement
                               + dims.left_side_allowance_width
                               + dims.right_side_allowance_width
        frame_total_height == dims.height_measurement
                                + dims.top_side_allowance_height
                                + dims.bottom_side_allowance_height
        is_double == IsDouble(door)
        door_minus_measurement_width ==
            IF is_double
            THEN d.door_minus_measurement_width + d.double_door_gap
            ELSE d.door_minus_measurement_width
        inner_width == frame_total_width - door_minus_measurement_width
        inner_height == frame_total_height - d.door_minus_measurement_height
    IN  [ door |-> door,
          inner_width |-> inner_width,
          inner_height |-> inner_height,
          leaf_width |-> IF is_double THEN Half(inner_width) ELSE inner_width,
          gap |-> IF is_double THEN d.double_door_gap ELSE 0,
          is_double |-> is_double,
          bending_width |-> d.bending_width,
          bending_height |-> d.bending_height,
          bending_width_double_door |-> d.bending_width_double_door,
          bend_adjust |-> d.bend_adjust ]

(* prepare_dimensions(request): the error, the params dict, and the
   defaults object as the call leaves it *)
prepare_dimensions(req) ==
    IF PrepareError(req) # ""
    THEN [ err |-> PrepareError(req), params |-> << >>, defaults |-> req.defaults ]
    ELSE [ err |-> "",
           params |-> PrepareParams(req),
           defaults |-> ApplyHoleOffset(req.door.hole_offset, req.defaults) ]

----------------------------------------------------------------------------
(* geometry.create_base_frames.  None is the empty sequence. *)

Rect(x0, y0, x1, y1) ==
    << <<x0, y0>>, <<x1, y0>>, <<x1, y1>>, <<x0, y1>>, <<x0, y0>> >>

(* the polygon moved to the right instead of to the left *)
ShiftXRight(pts, dx) == [ i \in 1..Len(pts) |-> <<pts[i][1] + dx, pts[i][2]>> ]

ShiftX(pts, dx) == [ i \in 1..Len(pts) |-> <<pts[i][1] - dx, pts[i][2]>> ]

create_base_frames(params) ==
    LET leaf_width == params.leaf_width
        inner_height == params.inner_height
        bend_adjust == params.bend_adjust
        outer_width == leaf_width + params.bending_width
        outer_width_left == leaf_width + params.bending_width_double_door
        outer_height == inner_height + params.bending_height
        inner_offset_x == params.bending_width - bend_adjust
        inner_offset_y == bend_adjust - params.bending_height
        shift_left == outer_width_left + params.gap
        inner_offset_x_left == bend_adjust
        outer_pts == Rect(0, 0, outer_width, inner_height)
        inner_pts == Rect(inner_offset_x, inner_offset_y,
                          inner_offset_x + leaf_width, inner_offset_y + outer_height)
        left_outer_local == Rect(0, 0, outer_width_left, inner_height)
        left_inner_local == Rect(inner_offset_x_left, inner_offset_y,
                                 inner_offset_x_left + leaf_width,
                                 inner_offset_y + outer_height)
    IN  [ outer |-> outer_pts,
          inner |-> inner_pts,
          outer_height |-> outer_height,
          inner_offset |-> <<inner_offset_x, inner_offset_y>>,
          left_outer |-> IF params.is_double
                         THEN ShiftX(left_outer_local, shift_left) ELSE <<>>,
          left_inner |-> IF params.is_double
                         THEN ShiftX(left_inner_local, shift_left) ELSE <<>>,
          shift_left |-> IF params.is_double THEN shift_left ELSE 0,
          inner_offset_left |-> IF params.is_double
                                THEN <<inner_offset_x_left, inner_offset_y>>
                                ELSE <<inner_offset_x, inner_offset_y>> ]

----------------------------------------------------------------------------
(* geometry.create_handles *)

create_handles(params, d, frames) ==
    LET inner_offset_x == frames.inner_offset[1]
        inner_offset_y == frames.inner_offset[2]
        handle_gap == d.box_gap
        handle_width == d.box_width
        handle_height == d.box_height
        handle_bottom_y ==
            inner_offset_y
              + Half(params.inner_height + params.bending_height - handle_height)
        handle_left_x == inner_offset_x + handle_gap
        left_handle_left_x ==
            inner_offset_x - frames.shift_left + params.leaf_width
              - handle_gap - handle_width
    IN  [ right_handle |-> Rect(handle_left_x, handle_bottom_y,
                                handle_left_x + handle_width,
                                handle_bottom_y + handle_height),
          left_handle |-> IF params.is_double
                          THEN Rect(left_handle_left_x, handle_bottom_y,
                                    left_handle_left_x + handle_width,
                                    handle_bottom_y + handle_height)
                          ELSE <<>> ]

----------------------------------------------------------------------------
(* geometry.apply_transform *)

(* the translation (translate_x, translate_y) from the untransformed points *)
Translation(point_sets) ==
    LET all == Flatten(point_sets)
    IN  << Max2(0, -MinOf(Xs(all))), Max2(0, -MinOf(Ys(all))) >>

(* the transform with the rotation left out *)
TranslatePoint(pt, t, rotated, outer_height) ==
    << t[1] + pt[1], t[2] + pt[2] >>

TransformPoint(pt, t, rotated, outer_height) ==
    IF ~rotated
    THEN << t[1] + pt[1], t[2] + pt[2] >>
    ELSE << t[1] + (outer_height - pt[2]), t[2] + pt[1] >>

apply_transform(point_sets, rotated, outer_height) ==
    LET t == Translation(point_sets)
    IN  [ k \in 1..Len(point_sets) |->
            [ i \in 1..Len(point_sets[k]) |->
                TransformPoint(point_sets[k][i], t, rotated, outer_height) ] ]

----------------------------------------------------------------------------
(* compute_door_geometry, lines 27-111: the point sets handed to
   apply_transform, mapped back, and the second normalisation *)

(* the point sets in the order of `components`; empty ones are skipped *)
AllSets(frames, handles) ==
    SelectSeq(<< frames.outer, frames.inner, handles.right_handle,
                 handles.left_handle, frames.left_outer, frames.left_inner >>,
              LAMBDA pts : pts # <<>>)

ShiftPts(pts, sx, sy) ==
    [ i \in 1..Len(pts) |-> << pts[i][1] - sx, pts[i][2] - sy >> ]

(* frames and handles after the transform alone, the second normalisation
   left out *)
TransformOnce(frames, handles, rotated) ==
    LET tr == apply_transform(AllSets(frames, handles), rotated,
                              frames.outer_height)
        dbl == frames.left_outer # <<>>
    IN  [ outer |-> tr[1],
          inner |-> tr[2],
          right_handle |-> tr[3],
          left_handle |-> IF dbl THEN tr[4] ELSE <<>>,
          left_outer |-> IF dbl THEN tr[5] ELSE <<>>,
          left_inner |-> IF dbl THEN tr[6] ELSE <<>> ]

(* lines 95-111: every point set shifted by the minimum over all of them,
   unless that minimum is (0, 0) *)
Normalise(tr, dbl, min_all_x, min_all_y) ==
    LET N(pts) == IF min_all_x # 0 \/ min_all_y # 0
                  THEN ShiftPts(pts, min_all_x, min_all_y) ELSE pts
    IN  [ outer |-> N(tr[1]),
          inner |-> N(tr[2]),
          right_handle |-> N(tr[3]),
          left_handle |-> IF dbl THEN N(tr[4]) ELSE <<>>,
          left_outer |-> IF dbl THEN N(tr[5]) ELSE <<>>,
          left_inner |-> IF dbl THEN N(tr[6]) ELSE <<>> ]

NormaliseAll(tr, dbl, all) == Normalise(tr, dbl, MinOf(Xs(all)), MinOf(Ys(all)))

NormaliseSets(tr, dbl) == NormaliseAll(tr, dbl, Flatten(tr))

(* frames and handles after transform and normalisation: a record with the
   six point sets, in the order of `components` (outer, inner, right_handle,
   [left_handle], [left_outer], [left_inner]) *)
TransformAll(frames, handles, rotated) ==
    NormaliseSets(apply_transform(AllSets(frames, handles), rotated,
                                  frames.outer_height),
                  frames.left_outer # <<>>)

(* geometry.utilis.compute_frame_dimensions *)
compute_frame_dimensions(points) ==
    << MaxOf(Xs(points)) - MinOf(Xs(points)),
       MaxOf(Ys(points)) - MinOf(Ys(points)) >>

Frame(name, pts) ==
    [ name |-> name, points |-> pts,
      width |-> compute_frame_dimensions(pts)[1],
      height |-> compute_frame_dimensions(pts)[2] ]

(* frame_objs, lines 113-130 *)
FrameObjs(tf) ==
    << Frame("outer", tf.outer), Frame("inner", tf.inner) >>
      \o (IF tf.left_outer # <<>>
          THEN << Frame("left_outer", tf.left_outer),
                  Frame("left_inner", tf.left_inner) >>
          ELSE <<>>)

----------------------------------------------------------------------------
(* geometry.generate_holes: reads the offsets from the defaults object and
   the untransformed inner_offset *)

Hole(name, center, radius) == [ name |-> name, center |-> center, radius |-> radius ]

generate_holes(params, d, frames) ==
    LET circle_center_x == frames.inner_offset[1] + d.left_circle_offset
        circle_center_y_top ==
            params.inner_height - d.top_circle_offset
              + frames.inner_offset[2] + params.bend_adjust
        circle_center_y_bottom ==
            d.top_circle_offset + frames.inner_offset[2] + params.bend_adjust
    IN  << Hole("hole_top", <<circle_center_x, circle_center_y_top>>, d.circle_radius),
           Hole("hole_bottom", <<circle_center_x, circle_center_y_bottom>>,
                d.circle_radius) >>

----------------------------------------------------------------------------
(* geometry.utilis: polygon primitives *)

(* cos(k * 11.25 deg) and cos(k * 15 deg), in 1/10000 *)
Cos8 == [ k \in 0..8 |->
            CASE k = 0 -> 10000 [] k = 1 -> 9808 [] k = 2 -> 9239
              [] k = 3 -> 8315 [] k = 4 -> 7071 [] k = 5 -> 5556
              [] k = 6 -> 3827 [] k = 7 -> 1951 [] k = 8 -> 0 ]

Cos12 == [ k \in 0..6 |->
            CASE k = 0 -> 10000 [] k = 1 -> 9659 [] k = 2 -> 8660
              [] k = 3 -> 7071 [] k = 4 -> 5000 [] k = 5 -> 2588
              [] k = 6 -> 0 ]

(* r * |c| / 10000 for r >= 0, truncated, computed by parts to stay within
   32-bit integers *)
ScaledAbs(r, c) == (r \div 10000) * c + ((r % 10000) * c) \div 10000

Scaled(r, c) == IF c >= 0 THEN ScaledAbs(r, c) ELSE -ScaledAbs(r, -c)

(* eps = 1e-6 of create_rounded_rect and dedupe_consecutive_points, in
   steps of the grid *)
Eps == 1

(* abs(a - b) <= eps *)
WithinEps(a, b) == Abs(a - b) <= Eps

RECURSIVE DedupeFrom(_, _)
DedupeFrom(points, acc) ==
    IF points = <<>> THEN acc
    ELSE LET p == Head(points)
             last == acc[Len(acc)]
         IN  IF ~WithinEps(p[1], last[1]) \/ ~WithinEps(p[2], last[2])
             THEN DedupeFrom(Tail(points), Append(acc, p))
             ELSE DedupeFrom(Tail(points), acc)

dedupe_consecutive_points(points) ==
    IF points = <<>> THEN points
    ELSE LET o == DedupeFrom(Tail(points), <<Head(points)>>)
         IN  IF o[1] # o[Len(o)] THEN Append(o, o[1]) ELSE o

(* sample_arc: the points strictly between the end angles of a quarter arc
   that starts at quadrant angle q * 90 deg and turns clockwise *)
SampleArc(cx, cy, r, q, segs) ==
    IF segs > 1
    THEN [ i \in 1..(segs - 1) |->
            LET j == (i * 8) \div segs
                a == Scaled(r, Cos8[j])
                b == Scaled(r, Cos8[8 - j])
            IN  CASE q = 1 -> << cx + b, cy + a >>
                  [] q = 0 -> << cx + a, cy - b >>
                  [] q = 3 -> << cx - b, cy - a >>
                  [] q = 2 -> << cx - a, cy + b >> ]
    ELSE <<>>

(* the first tangent point within eps of pt on both axes, else pt *)
SnapToTangent(pt, tangents) ==
    LET near == { k \in 1..Len(tangents) :
                    WithinEps(pt[1], tangents[k][1])
                      /\ WithinEps(pt[2], tangents[k][2]) }
    IN  IF near = {} THEN pt ELSE tangents[MinOf(near)]

create_rounded_rect(left_x, bottom_y, width, height, radius, segments) ==
    LET right == left_x + width
        top == bottom_y + height
        r == Min2(radius, Min2(Half(width), Half(height)))
        pts == << <<left_x + r, top>>, <<right - r, top>> >>
                 \o SampleArc(right - r, top - r, r, 1, segments)
                 \o << <<right, top - r>>, <<right, bottom_y + r>> >>
                 \o SampleArc(right - r, bottom_y + r, r, 0, segments)
                 \o << <<right - r, bottom_y>>, <<left_x + r, bottom_y>> >>
                 \o SampleArc(left_x + r, bottom_y + r, r, 3, segments)
                 \o << <<left_x, bottom_y + r>>, <<left_x, top - r>> >>
                 \o SampleArc(left_x + r, top - r, r, 2, segments)
        tangents == << <<left_x + r, top>>, <<right - r, top>>,
                       <<right, top - r>>, <<right, bottom_y + r>>,
                       <<right - r, bottom_y>>, <<left_x + r, bottom_y>>,
                       <<left_x, bottom_y + r>>, <<left_x, top - r>> >>
    IN  dedupe_consecutive_points(
            [ i \in 1..Len(pts) |-> SnapToTangent(pts[i], tangents) ])

(* cos and sin of i * 15 deg for i in 0..12, in 1/10000 *)
CosHalfTurn(i) == IF i <= 6 THEN Cos12[i] ELSE -Cos12[12 - i]

SinHalfTurn(i) == IF i <= 6 THEN Cos12[6 - i] ELSE Cos12[i - 6]

create_rounded_box(left_x, bottom_y, width, height, radius0) ==
    LET cx_left == left_x + radius0
        cx_right == left_x + width - radius0
        top == bottom_y + height
        radius == Min2(radius0, Half(height))
        mid == bottom_y + Half(height)
        pts == << <<cx_left, top>>, <<cx_right, top>> >>
                 \o [ k \in 1..13 |->
                        << cx_right + Scaled(radius, CosHalfTurn(k - 1)),
                           mid + Scaled(radius, SinHalfTurn(k - 1)) >> ]
                 \o << <<cx_left, bottom_y>> >>
                 \o [ k \in 1..13 |->
                        << cx_left - Scaled(radius, CosHalfTurn(k - 1)),
                           mid - Scaled(radius, SinHalfTurn(k - 1)) >> ]
    IN  Append(pts, pts[1])

----------------------------------------------------------------------------
(* geometry.generate_cutouts *)

Cutout(name, pts) == [ name |-> name, points |-> pts ]

(* the Cutout Composer's option resolver, lines 30-44 *)
ResolveOption(option) ==
    LET lower == StripLower(option)
    IN  IF lower = "" THEN NoOption
        ELSE IF lower \in { "option1", "option 1", "1", "standard" } THEN "Option1"
        ELSE IF lower \in { "option2", "option 2", "2", "topfixed" } THEN "Option2"
        ELSE IF lower \in { "option3", "option 3", "3", "bottomfixed" } THEN "Option3"
        ELSE IF lower \in { "standard_double", "standard-double", "standarddouble" }
             THEN "Option4"
        ELSE IF lower \in { "fourglass", "four_glass", "four-glass", "4glass", "4_glass" }
             THEN "Option5"
        ELSE NoOption

IsFire(door) == StripLower(door.type) = "fire"

IsSingleFire(door) == StripLower(door.category) = "single" /\ IsFire(door)

(* left/right/top/bottom margins as the single-panel path reads them from
   locals(): set by the single-fire block, else defaults.box_gap *)
GlassMargins(door, d, opt, inner_height) ==
    IF IsSingleFire(door)
    THEN [ lr |-> d.fire_glass_lr_margin,
           top |-> CASE opt = "Option3" -> Half(inner_height)
                     [] opt = "Option4" -> TopMarginDouble(d)
                     [] OTHER -> d.fire_glass_top_margin,
           bottom |-> IF opt = "Option2" THEN Half(inner_height)
                      ELSE d.fire_glass_bottom_margin ]
    ELSE [ lr |-> d.box_gap, top |-> d.box_gap, bottom |-> d.box_gap ]

GlassRadius(d, w, h) ==
    Min2(d.glass_corner_radius,
         Min2(IF w # 0 THEN Half(w) ELSE 0, IF h # 0 THEN Half(h) ELSE 0))

(* _make_panel, _make_panel_double, _make_panel_per_leaf: None is <<>> *)
MakePanel(d, left_abs, bottom_abs, width_local, height_local) ==
    IF width_local <= 0 \/ height_local <= 0 THEN <<>>
    ELSE create_rounded_rect(left_abs, bottom_abs, width_local, height_local,
                             GlassRadius(d, width_local, height_local),
                             d.glass_segments)

(* the default-size box a degenerate panel falls back to *)
FallbackBox(d, leaf_offset, leaf_width_local, inner_offset_y, inner_height) ==
    create_rounded_box(leaf_offset + Half(leaf_width_local - d.box_width),
                       inner_offset_y + Half(inner_height - d.box_height),
                       d.box_width, d.box_height,
                       Min2(Half(d.box_height), Half(d.box_width)))

PanelOrBox(p, box) == dedupe_consecutive_points(IF p = <<>> THEN box ELSE p)

(* single fire door, Option5: lines 86-110 *)
SingleOption5Panels(params, d, frames) ==
    LET iox == frames.inner_offset[1]
        ioy == frames.inner_offset[2]
        ih == params.inner_height
        glass_left_abs == iox + d.fire_glass_lr_margin
        glass_right_abs == iox + params.inner_width - d.fire_glass_lr_margin
        bottom1_abs == ioy + d.fire_glass_bottom_margin
        top1_abs == ioy + (Half(ih) - U(50))
        bottom2_abs == ioy + (Half(ih) + U(50))
        top2_abs == ioy + ih - d.fire_glass_top_margin
        box == FallbackBox(d, iox, params.inner_width, ioy, ih)
    IN  << PanelOrBox(MakePanel(d, glass_left_abs, bottom1_abs,
                                glass_right_abs - glass_left_abs,
                                top1_abs - bottom1_abs), box),
           PanelOrBox(MakePanel(d, glass_left_abs, bottom2_abs,
                                glass_right_abs - glass_left_abs,
                                top2_abs - bottom2_abs), box) >>

(* the two leaf offsets: right leaf, then left leaf in placed coordinates *)
LeafOffsets(frames) ==
    << frames.inner_offset[1], frames.inner_offset_left[1] - frames.shift_left >>

(* max y of the placed outer frame of the leaf, as stored in `frames` when
   generate_cutouts runs *)
OuterFrameTop(frames, leaf_offset) ==
    IF leaf_offset = frames.inner_offset[1]
    THEN MaxOf(Ys(frames.outer))
    ELSE MaxOf(Ys(frames.left_outer))

(* double fire door, Option5: lines 173-216 *)
DoubleOption5Leaf(params, d, frames, leaf_offset) ==
    LET ioy == frames.inner_offset[2]
        ih == params.inner_height
        glass_left_abs == leaf_offset + d.fire_glass_lr_margin
        glass_right_abs == leaf_offset + params.leaf_width - d.fire_glass_lr_margin
        bottom1_abs == ioy + d.fire_glass_bottom_margin + params.bend_adjust
        top1_abs == ioy + (Half(ih) - U(50)) + params.bend_adjust
        bottom2_abs == ioy + (Half(ih) + U(50)) + params.bend_adjust
        top2_abs == OuterFrameTop(frames, leaf_offset) - TopMarginDouble(d)
        box == FallbackBox(d, leaf_offset, params.leaf_width, ioy, ih)
    IN  << PanelOrBox(MakePanel(d, glass_left_abs, bottom1_abs,
                                glass_right_abs - glass_left_abs,
                                top1_abs - bottom1_abs), box),
           PanelOrBox(MakePanel(d, glass_left_abs, bottom2_abs,
                                glass_right_abs - glass_left_abs,
                                top2_abs - bottom2_abs), box) >>

(* double fire door, Option1 / Option4: lines 222-268 *)
DoublePerLeaf(params, d, frames, opt, leaf_offset) ==
    LET ioy == frames.inner_offset[2]
        ih == params.inner_height
        top_margin == IF opt = "Option4" THEN TopMarginDouble(d)
                      ELSE d.fire_glass_top_margin
        glass_left_abs == leaf_offset + d.fire_glass_lr_margin
        glass_right_abs == leaf_offset + params.leaf_width - d.fire_glass_lr_margin
        glass_bottom_abs == ioy + d.fire_glass_bottom_margin + params.bend_adjust
        glass_top_abs == OuterFrameTop(frames, leaf_offset) - top_margin
        box == FallbackBox(d, leaf_offset, params.leaf_width, ioy, ih)
    IN  << PanelOrBox(MakePanel(d, glass_left_abs, glass_bottom_abs,
                                glass_right_abs - glass_left_abs,
                                glass_top_abs - glass_bottom_abs), box) >>

(* the single-panel glass path, lines 143-171 *)
SinglePanelGlass(params, d, frames, opt) ==
    LET m == GlassMargins(params.door, d, opt, params.inner_height)
        l0 == m.lr
        r0 == params.inner_width - m.lr
        b0 == m.bottom
        t0 == params.inner_height - m.top
        degenerate == r0 <= l0 \/ t0 <= b0
        glass_w == IF degenerate THEN d.box_width ELSE r0 - l0
        glass_h == IF degenerate THEN d.box_height ELSE t0 - b0
        glass_left_local == IF degenerate THEN Half(params.inner_width - glass_w) ELSE l0
        glass_bottom_local == IF degenerate THEN Half(params.inner_height - glass_h) ELSE b0
        glass_left == frames.inner_offset[1] + glass_left_local
        glass_bottom == frames.inner_offset[2] + glass_bottom_local + params.bend_adjust
    IN  dedupe_consecutive_points(
            create_rounded_rect(glass_left, glass_bottom, glass_w, glass_h,
                                GlassRadius(d, glass_w, glass_h), d.glass_segments))

GlassNames(is_double) ==
    IF ~is_double THEN << "glass_bottom", "glass_top" >>
    ELSE << "glass_bottom_right", "glass_top_right",
            "glass_bottom_left", "glass_top_left" >>

(* the glass cutouts, lines 46-289: one `glass_cut`, or the named panels *)
GlassCutouts(params, d, frames, handles) ==
    LET door == params.door
        opt == ResolveOption(door.option)
        dbl == params.is_double
        fire == IsFire(door)
        offs == LeafOffsets(frames)
        named(polys) == [ i \in 1..Len(polys) |-> Cutout(GlassNames(dbl)[i], polys[i]) ]
    IN  IF IsSingleFire(door) /\ opt = "Option5"
        THEN named(SingleOption5Panels(params, d, frames))
        ELSE IF fire /\ opt # "Option5" /\ ~(dbl /\ opt \in { "Option1", "Option4" })
        THEN << Cutout("glass_cut", SinglePanelGlass(params, d, frames, opt)) >>
        ELSE IF dbl /\ fire /\ opt = "Option5"
        THEN named(DoubleOption5Leaf(params, d, frames, offs[1])
                     \o DoubleOption5Leaf(params, d, frames, offs[2]))
        ELSE IF dbl /\ fire /\ opt \in { "Option1", "Option4" }
        THEN named(DoublePerLeaf(params, d, frames, opt, offs[1])
                     \o DoublePerLeaf(params, d, frames, opt, offs[2]))
        ELSE << Cutout("glass_cut", handles.right_handle) >>

(* the keybox rectangle, lines 292-324 *)
Keybox(params, d, frames) ==
    LET kb_center_x_local == IF params.is_double THEN Half(params.leaf_width)
                             ELSE Half(params.inner_width)
        kb_left == frames.inner_offset[1] + kb_center_x_local - Half(d.keybox_width)
        kb_bottom == frames.inner_offset[2] + d.keybox_bottom_offset + params.bend_adjust
    IN  Rect(kb_left, kb_bottom, kb_left + d.keybox_width, kb_bottom + d.keybox_height)

generate_cutouts(params, d, frames, handles) ==
    (IF handles.left_handle # <<>>
     THEN << Cutout("left_handle", handles.left_handle) >> ELSE <<>>)
      \o << Cutout("center_handle", handles.right_handle) >>
      \o GlassCutouts(params, d, frames, handles)
      \o (IF IsFire(params.door)
          THEN << Cutout("keybox", Keybox(params, d, frames)) >> ELSE <<>>)

----------------------------------------------------------------------------
(* geometry.add_labels.create_labels *)

Label(type, text, position) == [ type |-> type, text |-> text, position |-> position ]

create_labels(req) ==
    LET text == IF req.metadata.label # "" THEN req.metadata.label
                ELSE req.metadata.file_name
        file_name == req.metadata.file_name
    IN  (IF text # "" THEN << Label("center_label", text, "center") >> ELSE <<>>)
          \o (IF file_name # "" /\ file_name # text
              THEN << Label("corner_label", file_name, "top_left") >> ELSE <<>>)

----------------------------------------------------------------------------
(* geometry.generate_annotations.  A text is the pair of its prefix and
   number. *)

(* round(v, 3) of a length v >= 0 *)
Round3(v) == ((v + 500) \div 1000) * 1000

Annotation(from, to, text, offset, angle) ==
    [ type |-> "dimension", from |-> from, to |-> to, text |-> text,
      offset |-> offset, angle |-> angle ]

BBox(points) ==
    [ min_x |-> MinOf(Xs(points)), min_y |-> MinOf(Ys(points)),
      max_x |-> MaxOf(Xs(points)), max_y |-> MaxOf(Ys(points)) ]

FrameDimensionsAnnotations(frame, offset_base, placement) ==
    LET b == BBox(frame.points)
        width == Round3(b.max_x - b.min_x)
        height == Round3(b.max_y - b.min_y)
    IN  IF placement = "bottom_left"
        THEN << Annotation(<<b.min_x, b.min_y>>, <<b.max_x, b.min_y>>,
                           <<"W", width>>, -offset_base, 0),
                Annotation(<<b.min_x, b.min_y>>, <<b.min_x, b.max_y>>,
                           <<"H", height>>, -offset_base, 90) >>
        ELSE << Annotation(<<b.min_x, b.max_y>>, <<b.max_x, b.max_y>>,
                           <<"W", width>>, offset_base, 0),
                Annotation(<<b.max_x, b.min_y>>, <<b.max_x, b.max_y>>,
                           <<"H", height>>, offset_base, 90) >>

CutoutDimensionsAnnotations(cutout, offset_base) ==
    LET b == BBox(cutout.points)
    IN  << Annotation(<<b.min_x, b.min_y>>, <<b.max_x, b.min_y>>,
                      <<"W", Round3(b.max_x - b.min_x)>>, -offset_base, 0),
           Annotation(<<b.min_x, b.min_y>>, <<b.min_x, b.max_y>>,
                      <<"H", Round3(b.max_y - b.min_y)>>, -offset_base, 90) >>

HoleDimensionsAnnotations(hole, offset_base) ==
    << Annotation(hole.center,
                  << hole.center[1] + Half(3 * hole.radius), hole.center[2] >>,
                  <<"D", Round3(2 * hole.radius)>>, offset_base, 0) >>

(* the coordinate of the dimension line on the other axis *)
GapLinePos(lo1, hi1, lo2, hi2) ==
    LET overlap_min == Max2(lo1, lo2)
        overlap_max == Min2(hi1, hi2)
    IN  IF overlap_max > overlap_min THEN Half(overlap_min + overlap_max)
        ELSE Half(Half(lo1 + hi1) + Half(lo2 + hi2))

_frame_gap_annotation(frame1, frame2, offset_base) ==
    LET b1 == BBox(frame1.points)
        b2 == BBox(frame2.points)
        dx == Max2(Max2(b2.min_x - b1.max_x, b1.min_x - b2.max_x), 0)
        dy == Max2(Max2(b2.min_y - b1.max_y, b1.min_y - b2.max_y), 0)
        y == GapLinePos(b1.min_y, b1.max_y, b2.min_y, b2.max_y)
        x == GapLinePos(b1.min_x, b1.max_x, b2.min_x, b2.max_x)
        from_x == IF b1.min_x < b2.min_x THEN b1.max_x ELSE b2.max_x
        to_x == IF b1.min_x < b2.min_x THEN b2.min_x ELSE b1.min_x
        from_y == IF b1.min_y < b2.min_y THEN b1.max_y ELSE b2.max_y
        to_y == IF b1.min_y < b2.min_y THEN b2.min_y ELSE b1.min_y
    IN  IF dx = 0 /\ dy = 0 THEN <<>>
        ELSE IF dx <= dy
        THEN IF Round3(Max2(0, to_x - from_x)) <= 0 THEN <<>>
             ELSE << Annotation(<<from_x, y>>, <<to_x, y>>,
                                <<"G", Round3(to_x - from_x)>>, offset_base, 0) >>
        ELSE IF Round3(Max2(0, to_y - from_y)) <= 0 THEN <<>>
             ELSE << Annotation(<<x, from_y>>, <<x, to_y>>,
                                <<"G", Round3(to_y - from_y)>>, offset_base, 90) >>

generate_annotations(frames, cutouts, holes) ==
    Flatten([ i \in 1..Len(frames) |->
                FrameDimensionsAnnotations(frames[i], U(8) + (i - 1) * U(4),
                    IF (i - 1) % 2 = 0 THEN "bottom_left" ELSE "top_right") ])
      \o Flatten([ i \in 1..Len(cutouts) |->
                CutoutDimensionsAnnotations(cutouts[i], U(6) + (i - 1) * U(3)) ])
      \o Flatten([ i \in 1..Len(holes) |->
                HoleDimensionsAnnotations(holes[i], U(4) + (i - 1) * U(2)) ])
      \o (IF Len(frames) >= 2
          THEN _frame_gap_annotation(frames[1], frames[2], U(6)) ELSE <<>>)
      \o (IF Len(frames) >= 4
          THEN _frame_gap_annotation(frames[3], frames[4], U(6)) ELSE <<>>)

----------------------------------------------------------------------------
(* geometry.door_geometry.compute_door_geometry *)

(* the option token the orchestrator puts in the output, lines 170-191 *)
NormalizeOption(option) ==
    LET o == StripLower(option)
    IN  IF o = "" THEN NoOption
        ELSE IF o \in { "standard", "standard_double", "standard-double",
                        "standarddouble" } THEN "Option4"
        ELSE IF o \in { "fourglass", "four_glass", "four-glass" } THEN "Option5"
        ELSE IF OptionDigits(o) \in 1..5 THEN OptionN(OptionDigits(o))
        ELSE NoOption

(* fastapi_app.schemas_output.SchemasOutput: the Literal fields *)
SchemaAccepts(door_category, door_type, option) ==
    /\ door_category \in { "Single", "Double" }
    /\ door_type \in { "Normal", "Fire" }
    /\ option \in { NoOption, "Option1", "Option2", "Option3" }

NoMetadata == [ width |-> 0, height |-> 0, rotated |-> FALSE, offset |-> <<0, 0>> ]

(* what a caller holds when the call raised `err`: no scene *)
Failure(err, d) ==
    [ status |-> err, frames |-> <<>>, cutouts |-> <<>>, holes |-> <<>>,
      annotations |-> <<>>, labels |-> <<>>, door_category |-> "",
      door_type |-> "", option |-> NoOption, metadata |-> NoMetadata,
      defaults |-> d ]

(* lines 66-74: the transformed point sets mapped back into the frames
   dict and the handles dict *)
PlacedFrames(local, tf) ==
    [ local EXCEPT !.outer = tf.outer, !.inner = tf.inner,
                   !.left_outer = tf.left_outer,
                   !.left_inner = tf.left_inner ]

PlacedHandles(tf) ==
    [ right_handle |-> tf.right_handle, left_handle |-> tf.left_handle ]

(* lines 135-199: labels, annotations, metadata, normalised type and
   option, SchemasOutput *)
SchemaOutput(req, params, d, frames, frame_objs, cutouts, holes, rotated, offset) ==
    LET overall == compute_frame_dimensions(frames.outer \o frames.left_outer)
        door_type_normalized == IF StripLower(params.door.type) = "fire"
                                THEN "Fire" ELSE "Normal"
        normalized_option == NormalizeOption(params.door.option)
    IN  IF ~SchemaAccepts(params.door.category, door_type_normalized,
                          normalized_option)
        THEN Failure("ValidationError", d)
        ELSE [ status |-> "ok",
               frames |-> frame_objs,
               cutouts |-> cutouts,
               holes |-> holes,
               annotations |-> generate_annotations(frame_objs, cutouts, holes),
               labels |-> create_labels(req),
               door_category |-> params.door.category,
               door_type |-> door_type_normalized,
               option |-> normalized_option,
               metadata |-> [ width |-> overall[1],
                              height |-> frames.outer_height,
                              rotated |-> rotated,
                              offset |-> offset ],
               defaults |-> d ]

(* lines 113-133: frame objects, then cutouts and holes from the frames
   dict and the handles dict as the transform left them *)
BuildScene(req, params, d, frames, handles, rotated, offset) ==
    SchemaOutput(req, params, d, frames, FrameObjs(frames),
                 generate_cutouts(params, d, frames, handles),
                 generate_holes(params, d, frames), rotated, offset)

(* lines 25-111: handles, transform and normalisation *)
PlaceScene(req, params, d, local, rotated, offset) ==
    LET tf == TransformAll(local, create_handles(params, d, local), rotated)
    IN  BuildScene(req, params, d, PlacedFrames(local, tf), PlacedHandles(tf),
                   rotated, offset)

(* lines 17-24: the error of prepare_dimensions propagates; otherwise the
   base frames are built from the prepared parameters *)
AfterPrepare(req, prep, rotated, offset) ==
    IF prep.err # "" THEN Failure(prep.err, prep.defaults)
    ELSE PlaceScene(req, prep.params, prep.defaults,
                    create_base_frames(prep.params), rotated, offset)

compute_door_geometry(req, rotated, offset) ==
    AfterPrepare(req, prepare_dimensions(req), rotated, offset)

----------------------------------------------------------------------------
(* The requests a caller submits *)

Categories == { "Single", "Double" }

Types == { "Normal", "Fire" }

(* <<width_measurement, height_measurement>>: positive (a tiny door, a low
   door, two full-size doors) and not *)
ValidDims ==
    { <<U(1), U(100)>>, <<U(600), U(100)>>, <<U(600), U(1105)>>,
      <<U(1240), U(1105)>> }

InvalidDims ==
    { <<0, U(1105)>>, <<-U(1), U(1105)>>, <<U(600), 0>>, <<U(600), -U(1)>>,
      <<0, 0>> }

(* positive measurements that leave the glass of a single fire door one
   millionth wide, high, or both (398.000001 and 455.000001) *)
ThinDims ==
    { <<U(398) + 1, U(455) + 1>>, <<U(398) + 1, U(1105)>>,
      <<U(600), U(455) + 1>> }

HoleSamples == { <<>>, <<"2", "2", "x", "2">> }

(* every string over HoleChars of length at most n *)
RECURSIVE StringsUpTo(_)
StringsUpTo(n) ==
    IF n = 0 THEN { <<>> }
    ELSE StringsUpTo(n - 1)
           \cup { Append(s, c) : s \in { t \in StringsUpTo(n - 1) : Len(t) = n - 1 },
                                 c \in HoleChars }

(* the defaults records a request is submitted with: DefaultInfo as
   declared, one with the double-door fields, and for the four-panel token
   one with fire_glass_top_margin_double too *)
DefaultsFor(req) ==
    { DefaultInfo, ExtendedDefaults(4, 31) }
      \cup (IF req.door.option = "4glass"
            THEN { WithTopMarginDouble(ExtendedDefaults(4, 31), 150) } ELSE {})

Offsets == { <<0, 0>>, <<U(10), U(5)>> }

Request(category, type, option, hole_offset, w, h) ==
    [ door |-> [ category |-> category, type |-> type, option |-> option,
                 hole_offset |-> hole_offset ],
      dimensions |-> [ width_measurement |-> w,
                       height_measurement |-> h,
                       left_side_allowance_width |-> U(25),
                       right_side_allowance_width |-> U(25),
                       top_side_allowance_height |-> U(25),
                       bottom_side_allowance_height |-> U(0) ],
      metadata |-> [ label |-> "D1", file_name |-> "D1.dxf" ] ]

(* every door with positive measurements and no hole_offset; the doors
   without option with a hole_offset; the single fire doors with thin
   glass; the doors with a non-positive measurement *)
Requests ==
    { Request(c, t, o, <<>>, wh[1], wh[2]) :
        c \in Categories, t \in Types, o \in OptionTokens, wh \in ValidDims }
      \cup
    { Request(c, t, NoOption, ho, wh[1], wh[2]) :
        c \in Categories, t \in Types, ho \in HoleSamples, wh \in ValidDims }
      \cup
    { Request("Single", "Fire", o, <<>>, wh[1], wh[2]) :
        o \in { NoOption, "Option1" }, wh \in ThinDims }
      \cup
    { Request(c, t, NoOption, <<>>, wh[1], wh[2]) :
        c \in Categories, t \in Types, wh \in InvalidDims }

(* one door, every hole_offset string *)
HoleRequests ==
    { Request("Single", "Normal", NoOption, ho, U(600), U(1105)) :
        ho \in StringsUpTo(MaxHoleLen) }

NoCall == [ rotated |-> FALSE, offset |-> <<0, 0>> ]

NoOutput == Failure("none", DefaultInfo)

Init ==
    /\ request \in Requests
    /\ defaults \in DefaultsFor(request)
    /\ out = NoOutput
    /\ args = NoCall
    /\ calls = 0

InitHole ==
    /\ request \in HoleRequests
    /\ defaults = ExtendedDefaults(4, 31)
    /\ out = NoOutput
    /\ args = NoCall
    /\ calls = 0

(* the request object: its door, dimensions and metadata, and the defaults
   object it refers to, which a call may mutate *)
RequestObject ==
    [ door |-> request.door, dimensions |-> request.dimensions,
      metadata |-> request.metadata, defaults |-> defaults ]

(* one invocation compute_door_geometry(request, rotated, offset) *)
Compute(rotated, offset) ==
    /\ calls < MaxCalls
    /\ LET res == compute_door_geometry(RequestObject, rotated, offset)
       IN  /\ out' = res
           /\ defaults' = res.defaults
    /\ args' = [ rotated |-> rotated, offset |-> offset ]
    /\ calls' = calls + 1
    /\ UNCHANGED request

Next == \E rotated \in BOOLEAN, offset \in Offsets : Compute(rotated, offset)

(* the API route and the test-case runners call with the default
   arguments *)
NextHole == Compute(FALSE, <<0, 0>>)

Spec == Init /\ [][Next]_vars

SpecHole == InitHole /\ [][NextHole]_vars

----------------------------------------------------------------------------
(* The scene before the transform, recomputed from the request of the
   state.  The params do not depend on the hole offsets, so they are the
   same before and after a call. *)

Returned == out.status = "ok"

LocalParams == PrepareParams(RequestObject)

LocalFrames == create_base_frames(LocalParams)

LocalHandles == create_handles(LocalParams, defaults, LocalFrames)

LocalCutouts == generate_cutouts(LocalParams, defaults, LocalFrames, LocalHandles)

LocalHoles == generate_holes(LocalParams, defaults, LocalFrames)

(* pts moved as compute_door_geometry moves the frame polygons: the shared
   translation and rotation of apply_transform, then the second
   normalisation *)
MovedLikeFrames(pts, rotated) ==
    LET sets == AllSets(LocalFrames, LocalHandles)
        t == Translation(sets)
        all == Flatten(apply_transform(sets, rotated, LocalFrames.outer_height))
    IN  ShiftPts([ i \in 1..Len(pts) |->
                     TransformPoint(pts[i], t, rotated, LocalFrames.outer_height) ],
                 MinOf(Xs(all)), MinOf(Ys(all)))

HandleNames == { "center_handle", "left_handle" }

FramePoints(o) == Flatten([ i \in 1..Len(o.frames) |-> o.frames[i].points ])

HandlePoints(o) ==
    Flatten([ i \in 1..Len(o.cutouts) |->
                IF o.cutouts[i].name \in HandleNames
                THEN o.cutouts[i].points ELSE <<>> ])

----------------------------------------------------------------------------
(* C1: a call fails with InvalidDimension exactly when width_measurement
   <= 0 or height_measurement <= 0, and a failed call returns no frame,
   cutout, hole, annotation or label; a request with both measurements
   positive, however small, passes the validation. *)
C1_InvalidDimensionExactly ==
    calls > 0 =>
      /\ (out.status = "InvalidDimension")
           <=> (request.dimensions.width_measurement <= 0
                  \/ request.dimensions.height_measurement <= 0)
      /\ out.status = "InvalidDimension" =>
           /\ out.frames = <<>> /\ out.cutouts = <<>> /\ out.holes = <<>>
           /\ out.annotations = <<>> /\ out.labels = <<>>

(* a call on a door of width 0 and positive height has failed *)
C1_Witness ==
    /\ calls > 0
    /\ request.dimensions.width_measurement = 0
    /\ request.dimensions.height_measurement > 0
    /\ out.status = "InvalidDimension"

(* C2: for every request with positive measurements, category Single or
   Double, type Normal or Fire, and an option that is absent, Option1..5 or
   one of the synonyms, the call returns a scene and raises no error. *)
C2_NoErrorForValidRequest ==
    ( /\ calls > 0
      /\ request.dimensions.width_measurement > 0
      /\ request.dimensions.height_measurement > 0
      /\ request.door.category \in { "Single", "Double" }
      /\ request.door.type \in { "Normal", "Fire" }
      /\ request.door.option \in
           { NoOption, "Option1", "Option2", "Option3", "Option4", "Option5",
             "standard", "topfixed", "bottomfixed", "standard_double",
             "fourglass" } )
      => out.status = "ok"

(* C3: in the returned scene every glass cutout, the keybox cutout and both
   hole centers have been moved by the translation and rotation that moved
   the frame polygons. *)
C3_CutoutsAndHolesMovedWithFrames ==
    Returned =>
      /\ \A i \in 1..Len(out.cutouts) :
           out.cutouts[i].name \notin HandleNames =>
             out.cutouts[i].points
               = MovedLikeFrames(LocalCutouts[i].points, args.rotated)
      /\ \A i \in 1..Len(out.holes) :
           << out.holes[i].center >>
             = MovedLikeFrames(<< LocalHoles[i].center >>, args.rotated)

(* C4: the points passed through the transform, the frame polygons and the
   handle polygons, have in the returned scene minimum x 0 and minimum
   y 0, for rotated false and true. *)
C4_TransformedUnionAtOrigin ==
    Returned =>
      /\ MinOf(Xs(FramePoints(out) \o HandlePoints(out))) = 0
      /\ MinOf(Ys(FramePoints(out) \o HandlePoints(out))) = 0

(* a rotated scene that the second normalisation has shifted *)
C4_Witness ==
    /\ Returned
    /\ args.rotated
    /\ out.frames[1].points
         # TransformOnce(LocalFrames, LocalHandles, TRUE).outer

(* C5: metadata.offset equals the offset given and the bounding-box minimum
   of the returned frame polygons alone is (0, 0). *)
C5_FramesAloneAtOrigin ==
    Returned =>
      /\ out.metadata.offset = args.offset
      /\ MinOf(Xs(FramePoints(out))) = 0
      /\ MinOf(Ys(FramePoints(out))) = 0

(* C6: every polygon of every returned frame and cutout is closed and has
   at least 4 points. *)
C6_PolygonsClosed ==
    Returned =>
      /\ \A i \in 1..Len(out.frames) :
           /\ Len(out.frames[i].points) >= 4
           /\ out.frames[i].points[1]
                = out.frames[i].points[Len(out.frames[i].points)]
      /\ \A i \in 1..Len(out.cutouts) :
           /\ Len(out.cutouts[i].points) >= 4
           /\ out.cutouts[i].points[1]
                = out.cutouts[i].points[Len(out.cutouts[i].points)]

(* C7: a call with offset (0,0) and rotated false that follows a call with
   the same arguments on the same request returns a scene with the same
   frames, cutouts and holes. *)
C7_SecondCallIdentical ==
    [][ ( /\ Returned
          /\ args = NoCall
          /\ args' = NoCall
          /\ calls' = calls + 1 )
        => ( /\ out'.status = "ok"
             /\ out'.frames = out.frames
             /\ out'.cutouts = out.cutouts
             /\ out'.holes = out.holes ) ]_vars

(* two calls done on a request whose hole_offset is well formed and differs
   from the defaults, the last with offset (0,0) and rotated false *)
C7_Witness ==
    /\ calls = 2
    /\ Returned
    /\ args = NoCall
    /\ HoleOffsetParses(request.door.hole_offset)
    /\ defaults.top_circle_offset # DefaultInfo.top_circle_offset

(* rotation by -90 degrees, and the shift of the bounding-box minimum to
   (0,0) *)
RotateBack(pts) == [ i \in 1..Len(pts) |-> << pts[i][2], -pts[i][1] >> ]

Renormalised(pts) == ShiftPts(pts, MinOf(Xs(pts)), MinOf(Ys(pts)))

(* C8: the outer frame returned with rotated true has the width and height
   of the outer frame returned with rotated false swapped, and rotated
   back and renormalised it is the renormalised unrotated outer polygon. *)
C8_RotationSwapsOuter ==
    (Returned /\ args.rotated) =>
      LET flat == compute_door_geometry(RequestObject, FALSE, args.offset)
      IN  /\ flat.status = "ok"
          /\ out.frames[1].name = "outer"
          /\ out.frames[1].width = flat.frames[1].height
          /\ out.frames[1].height = flat.frames[1].width
          /\ Renormalised(RotateBack(out.frames[1].points))
               = Renormalised(flat.frames[1].points)

(* a rotated scene whose outer frame is not square *)
C8_Witness ==
    /\ Returned
    /\ args.rotated
    /\ out.frames[1].width # out.frames[1].height

(* the reading of hole_offset as "<A>x<B>": lower-cased and without
   spaces, one x with a numeric token on each side *)
XPositions(raw) ==
    { i \in 1..Len(LowerNoSpace(raw)) :
        /\ LowerNoSpace(raw)[i] = "x"
        /\ IsNumeric(SubSeq(LowerNoSpace(raw), 1, i - 1))
        /\ IsNumeric(SubSeq(LowerNoSpace(raw), i + 1, Len(LowerNoSpace(raw)))) }

WellFormedHoleOffset(raw) == XPositions(raw) # {}

TokenA(raw) ==
    U(FloatOf(SubSeq(LowerNoSpace(raw), 1, MinOf(XPositions(raw)) - 1)))

TokenB(raw) ==
    U(FloatOf(SubSeq(LowerNoSpace(raw), MinOf(XPositions(raw)) + 1,
                     Len(LowerNoSpace(raw)))))

(* C9: a hole_offset "<A>x<B>" sets top_circle_offset to A and
   left_circle_offset to B, with hole_top at (inner_offset_x + B,
   inner_height - A + inner_offset_y + bend_adjust) and hole_bottom at
   (inner_offset_x + B, A + inner_offset_y + bend_adjust); any other
   hole_offset raises nothing and leaves both offsets as configured. *)
C9_HoleOffsetOverride ==
    calls > 0 =>
      LET raw == request.door.hole_offset
          p == LocalParams
          inner_offset_x == p.bending_width - p.bend_adjust
          inner_offset_y == p.bend_adjust - p.bending_height
      IN  /\ out.status = "ok"
          /\ IF WellFormedHoleOffset(raw)
             THEN /\ defaults.top_circle_offset = TokenA(raw)
                  /\ defaults.left_circle_offset = TokenB(raw)
                  /\ out.holes[1].name = "hole_top"
                  /\ out.holes[1].center
                       = << inner_offset_x + TokenB(raw),
                            p.inner_height - TokenA(raw) + inner_offset_y
                              + p.bend_adjust >>
                  /\ out.holes[2].name = "hole_bottom"
                  /\ out.holes[2].center
                       = << inner_offset_x + TokenB(raw),
                            TokenA(raw) + inner_offset_y + p.bend_adjust >>
             ELSE /\ defaults.top_circle_offset = DefaultInfo.top_circle_offset
                  /\ defaults.left_circle_offset = DefaultInfo.left_circle_offset

(* a call done on a hole_offset with two different tokens, written with an
   upper-case X or a space *)
C9_Witness ==
    /\ calls > 0
    /\ WellFormedHoleOffset(request.door.hole_offset)
    /\ TokenA(request.door.hole_offset) # TokenB(request.door.hole_offset)
    /\ \E i \in 1..Len(request.door.hole_offset) :
         request.door.hole_offset[i] \in { "X", " " }

(* C10: the outer frame of a single-leaf door has width inner_width +
   bending_width and height inner_height + bending_height. *)
C10_SingleOuterSize ==
    (Returned /\ ~IsDouble(request.door) /\ ~args.rotated) =>
      LET dims == request.dimensions
          inner_width == dims.width_measurement + dims.left_side_allowance_width
                           + dims.right_side_allowance_width
                           - defaults.door_minus_measurement_width
          inner_height == dims.height_measurement + dims.top_side_allowance_height
                            + dims.bottom_side_allowance_height
                            - defaults.door_minus_measurement_height
      IN  /\ out.frames[1].name = "outer"
          /\ out.frames[1].width = inner_width + defaults.bending_width
          /\ out.frames[1].height = inner_height + defaults.bending_height

----------------------------------------------------------------------------
(* the names in a returned scene *)
CutoutNames(o) == [ i \in 1..Len(o.cutouts) |-> o.cutouts[i].name ]

HoleNames(o) == [ i \in 1..Len(o.holes) |-> o.holes[i].name ]

FrameNames(o) == [ i \in 1..Len(o.frames) |-> o.frames[i].name ]

(* every name generate_cutouts gives a glass cutout, lines 280-288 with at
   most four panels *)
GlassCutoutNames ==
    { "glass_cut", "glass_bottom", "glass_top", "glass_bottom_right",
      "glass_top_right", "glass_bottom_left", "glass_top_left" }

IsGlassCutout(c) == c.name \in GlassCutoutNames

(* the glass cutouts of a scene, in order *)
GlassCutoutsOf(o) == SelectSeq(o.cutouts, IsGlassCutout)

GlassNamesOf(o) ==
    [ i \in 1..Len(GlassCutoutsOf(o)) |-> GlassCutoutsOf(o)[i].name ]

CountNamed(names, n) == Cardinality({ i \in 1..Len(names) : names[i] = n })

(* the option tokens that name Option5: the ones either normaliser maps to
   Option5 *)
IsOption5(option) ==
    NormalizeOption(option) = "Option5" \/ ResolveOption(option) = "Option5"

(* C11: for every Single Normal door with no option the returned scene has
   exactly one cutout named center_handle, no cutout whose name starts with
   glass, no keybox, and exactly the two holes hole_top and hole_bottom. *)
C11_SingleNormalNoOption ==
    ( /\ Returned
      /\ StripLower(request.door.category) = "single"
      /\ ~IsFire(request.door)
      /\ request.door.option = NoOption )
      => /\ CountNamed(CutoutNames(out), "center_handle") = 1
         /\ GlassCutoutsOf(out) = <<>>
         /\ CountNamed(CutoutNames(out), "keybox") = 0
         /\ HoleNames(out) = << "hole_top", "hole_bottom" >>

(* C12: for every Single Fire door whose option is Option5 the call returns
   a scene with exactly two glass cutouts, glass_bottom then glass_top,
   exactly one keybox cutout and exactly two holes. *)
C12_SingleFireOption5 ==
    ( /\ calls > 0
      /\ out.status \notin { "AttributeError", "InvalidDimension" }
      /\ IsSingleFire(request.door)
      /\ IsOption5(request.door.option) )
      => /\ Returned
         /\ GlassNamesOf(out) = << "glass_bottom", "glass_top" >>
         /\ CountNamed(CutoutNames(out), "keybox") = 1
         /\ Len(out.holes) = 2

(* bounding box of a polygon as <<min x, min y, max x, max y>> *)
Box(pts) == << MinOf(Xs(pts)), MinOf(Ys(pts)), MaxOf(Xs(pts)), MaxOf(Ys(pts)) >>

(* box a lies within box b *)
OverLeaf(a, b) == b[1] <= a[1] /\ a[3] <= b[3] /\ b[2] <= a[2] /\ a[4] <= b[4]

(* C13: for every Double Fire door whose option is Option5 the call returns
   a scene with exactly four glass cutouts glass_bottom_right,
   glass_top_right, glass_bottom_left, glass_top_left, the first two over
   the right leaf (frame outer) and the last two over the left leaf (frame
   left_outer), and exactly the four frames outer, inner, left_outer,
   left_inner. *)
C13_DoubleFireOption5 ==
    ( /\ calls > 0
      /\ out.status \notin { "AttributeError", "InvalidDimension" }
      /\ IsDouble(request.door)
      /\ IsFire(request.door)
      /\ IsOption5(request.door.option) )
      => /\ Returned
         /\ GlassNamesOf(out)
              = << "glass_bottom_right", "glass_top_right",
                   "glass_bottom_left", "glass_top_left" >>
         /\ FrameNames(out) = << "outer", "inner", "left_outer", "left_inner" >>
         /\ \A i \in 1..2 :
              OverLeaf(Box(GlassCutoutsOf(out)[i].points),
                       Box(out.frames[1].points))
         /\ \A i \in 3..4 :
              OverLeaf(Box(GlassCutoutsOf(out)[i].points),
                       Box(out.frames[3].points))

(* the cutouts of a scene that are not the handle rectangles themselves *)
IsHandleShaped(c) == c.name \notin HandleNames

HandleShapedOf(o) == SelectSeq(o.cutouts, IsHandleShaped)

(* the plain 5-point handle rectangle of the scene *)
PlainHandle(o) ==
    (CHOOSE c \in Range(o.cutouts) : c.name = "center_handle").points

(* the handle-shaped cutouts that are capsules, not the plain rectangle *)
Capsules(o) ==
    { i \in 1..Len(HandleShapedOf(o)) :
        /\ HandleShapedOf(o)[i].points # PlainHandle(o)
        /\ Len(HandleShapedOf(o)[i].points) > 5 }

(* C14: for Normal doors, Single with Option1 or Option4 has one capsule
   cutout; Double with Option1 or Option4 has two capsules with a 6-unit
   gap between them; Double with Option2 has one capsule; every other
   Normal door has the plain handle rectangle. *)
C14_NormalCapsuleTable ==
    (Returned /\ ~IsFire(request.door)) =>
      LET opt == ResolveOption(request.door.option)
          dbl == IsDouble(request.door)
          shaped == HandleShapedOf(out)
      IN  IF opt \in { "Option1", "Option4" } /\ ~dbl
          THEN Len(shaped) = 1 /\ Capsules(out) = { 1 }
          ELSE IF opt \in { "Option1", "Option4" } /\ dbl
          THEN /\ Len(shaped) = 2 /\ Capsules(out) = { 1, 2 }
               /\ Abs(Box(shaped[1].points)[1] - Box(shaped[2].points)[3]) = U(6)
                    \/ Abs(Box(shaped[2].points)[1] - Box(shaped[1].points)[3]) = U(6)
          ELSE IF opt = "Option2" /\ dbl
          THEN Len(shaped) = 1 /\ Capsules(out) = { 1 }
          ELSE Len(shaped) = 1 /\ shaped[1].points = PlainHandle(out)

(* C15: the option of the returned output is the token the Cutout Composer
   resolved from the input option, and the two normalisers agree on every
   input option. *)
C15_OptionSameToken ==
    calls > 0 =>
      /\ NormalizeOption(request.door.option) = ResolveOption(request.door.option)
      /\ Returned => out.option = ResolveOption(request.door.option)

(* C16: for a Single Fire door with Option1, Option2 or Option3 whose glass
   rectangle is not degenerate (right > left and top > bottom), there is
   exactly one glass cutout, glass_cut, whose bounding box is
   inner_width - 2 * fire_glass_lr_margin wide and inner_height - top -
   bottom high, with (top, bottom) the configured margins for Option1,
   (configured top, inner_height / 2) for Option2 and (inner_height / 2,
   configured bottom) for Option3. *)
C16_SingleFireGlassSize ==
    LET opt == ResolveOption(request.door.option)
        p == LocalParams
        top == IF opt = "Option3" THEN Half(p.inner_height)
               ELSE defaults.fire_glass_top_margin
        bottom == IF opt = "Option2" THEN Half(p.inner_height)
                  ELSE defaults.fire_glass_bottom_margin
        w == p.inner_width - 2 * defaults.fire_glass_lr_margin
        h == p.inner_height - top - bottom
    IN  ( /\ Returned
          /\ IsSingleFire(request.door)
          /\ opt \in { "Option1", "Option2", "Option3" }
          /\ w > 0
          /\ h > 0 )
          => /\ GlassNamesOf(out) = << "glass_cut" >>
             /\ Box(GlassCutoutsOf(out)[1].points)[3]
                  - Box(GlassCutoutsOf(out)[1].points)[1] = w
             /\ Box(GlassCutoutsOf(out)[1].points)[4]
                  - Box(GlassCutoutsOf(out)[1].points)[2] = h

(* the box of size box_width x box_height centred in the area that starts
   at (left, bottom) and is width x height large *)
CentredBox(d, left, bottom, width, height) ==
    << left + Half(width - d.box_width),
       bottom + Half(height - d.box_height),
       left + Half(width - d.box_width) + d.box_width,
       bottom + Half(height - d.box_height) + d.box_height >>

(* the number of leaves a fire layout cuts glass for, and the number of
   panels per leaf: lines 59-268 *)
GlassLeaves(door, opt) ==
    IF IsDouble(door) /\ opt \in { "Option1", "Option4", "Option5" } THEN 2 ELSE 1

PanelsPerLeaf(opt) == IF opt = "Option5" THEN 2 ELSE 1

(* C17: whenever the glass rectangle of a fire layout is degenerate (its
   leaf not wider than the two side margins; for the single panel also
   not higher than the top and bottom margins) every glass cutout is a
   box_width x box_height box centred in the inner area of its leaf, the
   call raises nothing and the number of glass cutouts is that of the
   layout. *)
C17_DegenerateFallsBackToCentredBox ==
    LET opt == ResolveOption(request.door.option)
        p == LocalParams
        f == LocalFrames
        leaves == GlassLeaves(request.door, opt)
        per == PanelsPerLeaf(opt)
        panelled == leaves = 2 \/ opt = "Option5"
        m == GlassMargins(request.door, defaults, opt, p.inner_height)
        degenerate ==
            IF panelled
            THEN p.leaf_width <= 2 * defaults.fire_glass_lr_margin
            ELSE \/ p.inner_width - m.lr <= m.lr
                 \/ p.inner_height - m.top <= m.bottom
        width == IF leaves = 2 THEN p.leaf_width ELSE p.inner_width
        g == GlassCutoutsOf(out)
    IN  ( /\ calls > 0
          /\ out.status \notin { "AttributeError", "InvalidDimension",
                                 "ValidationError" }
          /\ IsFire(request.door)
          /\ degenerate )
          => /\ Returned
             /\ Len(g) = leaves * per
             /\ \A i \in 1..Len(g) :
                  Box(g[i].points)
                    = CentredBox(defaults,
                                 IF leaves = 2
                                 THEN LeafOffsets(f)[((i - 1) \div per) + 1]
                                 ELSE f.inner_offset[1],
                                 f.inner_offset[2], width, p.inner_height)

(* C18: for every fire door with Option5, in each leaf the top panel lies
   above the bottom panel, the distance from the highest y of the bottom
   panel to the lowest y of the top panel is 100 units, and that gap is
   centred on the inner mid-height. *)
C18_Option5Gap ==
    ( /\ Returned
      /\ IsFire(request.door)
      /\ ResolveOption(request.door.option) = "Option5" )
      => LET g == GlassCutoutsOf(out)
             mid == LocalFrames.inner_offset[2] + Half(LocalParams.inner_height)
         IN  /\ Len(g) \in { 2, 4 }
             /\ \A k \in 1..(Len(g) \div 2) :
                  /\ Box(g[2 * k - 1].points)[4] = mid - U(50)
                  /\ Box(g[2 * k].points)[2] = mid + U(50)
                  /\ Box(g[2 * k].points)[2] - Box(g[2 * k - 1].points)[4] = U(100)

(* C19: the glass of a fire door is shifted up by bend_adjust: for a Single
   Fire door with Option1 or Option5 that is large enough for its panels,
   the lower edge of the first glass cutout (glass_cut, glass_bottom) is at
   inner_offset_y + fire_glass_bottom_margin + bend_adjust, which is the
   lower edge of the Option1 glass_cut, and the upper edge of the last one
   (glass_cut, glass_top) is at inner_offset_y + inner_height -
   fire_glass_top_margin + bend_adjust. *)
C19_GlassShiftedByBendAdjust ==
    LET opt == ResolveOption(request.door.option)
        p == LocalParams
        f == LocalFrames
        g == GlassCutoutsOf(out)
    IN  ( /\ Returned
          /\ IsSingleFire(request.door)
          /\ opt \in { "Option1", "Option5" }
          /\ p.inner_width > 2 * defaults.fire_glass_lr_margin + Eps
          /\ Half(p.inner_height) - U(50)
               > defaults.fire_glass_bottom_margin + p.bend_adjust + Eps
          /\ Half(p.inner_height) - U(50)
               > defaults.fire_glass_top_margin + Eps )
          => /\ Box(g[1].points)[2]
                  = f.inner_offset[2] + defaults.fire_glass_bottom_margin
                      + p.bend_adjust
             /\ Box(g[1].points)[2]
                  = Box(SinglePanelGlass(p, defaults, f, "Option1"))[2]
             /\ Box(g[Len(g)].points)[4]
                  = f.inner_offset[2] + p.inner_height
                      - defaults.fire_glass_top_margin + p.bend_adjust

(* the points of the cutout or frame called n, <<>> when there is none *)
PointsNamed(objs, n) ==
    IF \E i \in 1..Len(objs) : objs[i].name = n
    THEN objs[CHOOSE i \in 1..Len(objs) : objs[i].name = n].points
    ELSE <<>>

(* C20: the returned scene has exactly one keybox cutout when the door
   type is fire, compared without case, and none otherwise; the keybox is
   a keybox_width x keybox_height rectangle whose horizontal centre is the
   horizontal centre of the returned inner frame and whose bottom edge is
   keybox_bottom_offset + bend_adjust above the bottom edge of that
   frame. *)
C20_KeyboxPlacement ==
    Returned =>
      /\ CountNamed(CutoutNames(out), "keybox")
           = IF IsFire(request.door) THEN 1 ELSE 0
      /\ IsFire(request.door) =>
           LET kb == Box(PointsNamed(out.cutouts, "keybox"))
               inner == Box(PointsNamed(out.frames, "inner"))
           IN  /\ PointsNamed(out.cutouts, "keybox")
                    = Rect(kb[1], kb[2], kb[3], kb[4])
               /\ kb[3] - kb[1] = defaults.keybox_width
               /\ kb[4] - kb[2] = defaults.keybox_height
               /\ WithinEps(kb[1] + kb[3], inner[1] + inner[3])
               /\ kb[2] - inner[2]
                    = defaults.keybox_bottom_offset + LocalParams.bend_adjust

----------------------------------------------------------------------------
(* geometry.generate_annotations._frame_gap_annotation on its own: args
   holds the two frames of the call, out the list it returned *)

GapCoords == { 0, U(2), U(4), U(6) }

(* the rectangles with corners on GapCoords *)
GapFrames ==
    { [ name |-> "frame", points |-> Rect(c[1], c[2], c[3], c[4]) ] :
        c \in { b \in GapCoords \X GapCoords \X GapCoords \X GapCoords :
                  b[1] < b[3] /\ b[2] < b[4] } }

InitGap ==
    /\ request = Request("Double", "Normal", NoOption, <<>>, U(1240), U(1105))
    /\ defaults = DefaultInfo
    /\ out = <<>>
    /\ args \in [ frame1 : GapFrames, frame2 : GapFrames ]
    /\ calls = 0

(* one call _frame_gap_annotation(frame1, frame2, offset_base=6.0), as at
   lines 247-251 of generate_annotations *)
FrameGap ==
    /\ calls = 0
    /\ out' = _frame_gap_annotation(args.frame1, args.frame2, U(6))
    /\ calls' = 1
    /\ UNCHANGED << request, defaults, args >>

NextGap == FrameGap

SpecGap == InitGap /\ [][NextGap]_vars

(* the separation of two bounding boxes along x and along y, 0 when they
   overlap or touch on that axis *)
SeparationX(b1, b2) == Max2(Max2(b2.min_x - b1.max_x, b1.min_x - b2.max_x), 0)

SeparationY(b1, b2) == Max2(Max2(b2.min_y - b1.max_y, b1.min_y - b2.max_y), 0)

(* C21: _frame_gap_annotation returns exactly one dimension annotation
   whenever the bounding boxes of its two frames are separated on at least
   one axis, its length and text being the separation on the axis it
   measures, and returns none only when the boxes overlap or touch. *)
C21_GapAnnotatedWhenSeparated ==
    calls > 0 =>
      LET dx == SeparationX(BBox(args.frame1.points), BBox(args.frame2.points))
          dy == SeparationY(BBox(args.frame1.points), BBox(args.frame2.points))
      IN  IF dx = 0 /\ dy = 0 THEN out = <<>>
          ELSE /\ Len(out) = 1
               /\ out[1].type = "dimension"
               /\ \/ /\ out[1].angle = 0
                     /\ dx > 0
                     /\ out[1].to[1] - out[1].from[1] = dx
                     /\ out[1].text = << "G", Round3(dx) >>
                  \/ /\ out[1].angle = 90
                     /\ dy > 0
                     /\ out[1].to[2] - out[1].from[2] = dy
                     /\ out[1].text = << "G", Round3(dy) >>

----------------------------------------------------------------------------
(* the horizontal distance from the right edge of the polygon `left` to the
   left edge of the polygon `right` *)
LeafGap(right, left) == MinOf(Xs(right)) - MaxOf(Xs(left))

(* the point sets after apply_transform and before the second
   normalisation *)
TransformedSets(rotated) ==
    apply_transform(AllSets(LocalFrames, LocalHandles), rotated,
                    LocalFrames.outer_height)

(* C22: for every double door returned with rotated = false, the minimum x
   of the outer frame minus the maximum x of the left_outer frame equals
   double_door_gap: in the frames as built, after the coordinate transform,
   and in the returned frames after the second normalisation. *)
C22_LeavesSeparatedByGap ==
    (Returned /\ ~args.rotated /\ IsDouble(request.door)) =>
      /\ LeafGap(LocalFrames.outer, LocalFrames.left_outer)
           = defaults.double_door_gap
      /\ LeafGap(TransformedSets(FALSE)[1], TransformedSets(FALSE)[5])
           = defaults.double_door_gap
      /\ LeafGap(PointsNamed(out.frames, "outer"),
                 PointsNamed(out.frames, "left_outer"))
           = defaults.double_door_gap

(* a returned double door, not rotated, whose frames the transform has
   moved to the right *)
C22_Witness ==
    /\ Returned
    /\ ~args.rotated
    /\ IsDouble(request.door)
    /\ defaults.double_door_gap > 0
    /\ PointsNamed(out.frames, "left_outer") # LocalFrames.left_outer
    /\ PointsNamed(out.frames, "left_outer") # <<>>

----------------------------------------------------------------------------
(* C23: for every double door, the right handle's left edge lies box_gap to
   the right of the left edge of the inner frame, the left handle's right
   edge lies box_gap to the left of the right edge of the left_inner frame,
   both handles are box_width x box_height, and both have the same vertical
   extent, centred on the vertical extent of the inner frame. *)
C23_LeftHandleMirrorsRight ==
    (Returned /\ IsDouble(request.door)) =>
      LET inner == Box(LocalFrames.inner)
          left_inner == Box(LocalFrames.left_inner)
          right_handle == Box(LocalHandles.right_handle)
          left_handle == Box(LocalHandles.left_handle)
      IN  /\ right_handle[1] - inner[1] = defaults.box_gap
          /\ left_inner[3] - left_handle[3] = defaults.box_gap
          /\ right_handle[3] - right_handle[1] = defaults.box_width
          /\ left_handle[3] - left_handle[1] = defaults.box_width
          /\ right_handle[4] - right_handle[2] = defaults.box_height
          /\ left_handle[4] - left_handle[2] = defaults.box_height
          /\ right_handle[2] = left_handle[2]
          /\ right_handle[4] = left_handle[4]
          /\ WithinEps(right_handle[2] + right_handle[4], inner[2] + inner[4])

----------------------------------------------------------------------------
(* geometry.utilis.dedupe_consecutive_points on its own: args holds the
   argument, out the returned list. *)

MaxPoints == 3

(* coordinates equal, within eps of each other, and far apart *)
DedupeXs == { 0, 1, 2, U(1) }

DedupeYs == { 0, U(1) }

RECURSIVE PointSeqs(_)
PointSeqs(n) ==
    IF n = 0 THEN { <<>> }
    ELSE PointSeqs(n - 1)
           \cup { Append(s, p) : s \in { t \in PointSeqs(n - 1) : Len(t) = n - 1 },
                                 p \in DedupeXs \X DedupeYs }

InitDedupe ==
    /\ request = Request("Single", "Normal", NoOption, <<>>, U(600), U(1105))
    /\ defaults = DefaultInfo
    /\ out = <<>>
    /\ args \in [ points : PointSeqs(MaxPoints) ]
    /\ calls = 0

(* one call dedupe_consecutive_points(points), with the default eps *)
Dedupe ==
    /\ calls = 0
    /\ out' = dedupe_consecutive_points(args.points)
    /\ calls' = 1
    /\ UNCHANGED << request, defaults, args >>

NextDedupe == Dedupe

SpecDedupe == InitDedupe /\ [][NextDedupe]_vars

(* C24: for every non-empty input sequence, dedupe_consecutive_points
   returns a sequence whose first point equals its last point and in which
   no two consecutive points, the closing point included, are within eps of
   each other in both coordinates. *)
C24_DedupeClosedAndSeparated ==
    (calls > 0 /\ args.points # <<>>) =>
      /\ out # <<>>
      /\ out[1] = out[Len(out)]
      /\ \A i \in 1..(Len(out) - 1) :
           ~(WithinEps(out[i][1], out[i + 1][1])
               /\ WithinEps(out[i][2], out[i + 1][2]))

----------------------------------------------------------------------------
(* geometry.apply_transform on its own: args holds the arguments, out the
   returned pair (transformed_sets, (translate_x, translate_y)).  The list
   and every point set in it are non-empty: min() of no points raises. *)

MaxSets == 2

TransformCoords == { -U(2), U(3) }

(* point sets of one or two points *)
TransformPointSets ==
    { <<p>> : p \in TransformCoords \X TransformCoords }
      \cup { <<p, q>> : p \in TransformCoords \X TransformCoords,
                        q \in TransformCoords \X TransformCoords }

RECURSIVE SetLists(_)
SetLists(n) ==
    IF n = 1 THEN { <<ps>> : ps \in TransformPointSets }
    ELSE SetLists(n - 1)
           \cup { Append(l, ps) : l \in { m \in SetLists(n - 1) : Len(m) = n - 1 },
                                  ps \in TransformPointSets }

OuterHeights == { 0, U(5) }

InitTransform ==
    /\ request = Request("Single", "Normal", NoOption, <<>>, U(600), U(1105))
    /\ defaults = DefaultInfo
    /\ out = <<>>
    /\ args \in [ point_sets : SetLists(MaxSets), rotated : BOOLEAN,
                  outer_height : OuterHeights ]
    /\ calls = 0

(* one call apply_transform(point_sets, rotated, offset, outer_height); the
   offset argument is not used *)
Transform ==
    /\ calls = 0
    /\ out' = << apply_transform(args.point_sets, args.rotated, args.outer_height),
                 Translation(args.point_sets) >>
    /\ calls' = 1
    /\ UNCHANGED << request, defaults, args >>

NextTransform == Transform

SpecTransform == InitTransform /\ [][NextTransform]_vars

(* C25: for every list of point sets, every outer_height and both values
   of rotated, every point returned by apply_transform has x >= 0 and
   y >= 0, and the returned translation is (max(0, -min_x), max(0, -min_y))
   of the untransformed points. *)
C25_TransformedNonNegative ==
    calls > 0 =>
      /\ out[2] = << Max2(0, -MinOf(Xs(Flatten(args.point_sets)))),
                     Max2(0, -MinOf(Ys(Flatten(args.point_sets)))) >>
      /\ \A k \in 1..Len(out[1]) : \A i \in 1..Len(out[1][k]) :
           out[1][k][i][1] >= 0 /\ out[1][k][i][2] >= 0

----------------------------------------------------------------------------
(* the points of the returned outer frame polygons: outer, and left_outer
   for double doors *)
OuterFramePoints(o) ==
    PointsNamed(o.frames, "outer") \o PointsNamed(o.frames, "left_outer")

(* C26: the returned metadata.width and metadata.height equal the width
   and the height of the bounding box of the returned outer frame polygons
   (outer, together with left_outer for double doors), for rotated false
   and true. *)
C26_MetadataIsOuterBoundingBox ==
    Returned =>
      /\ out.metadata.width
           = Box(OuterFramePoints(out))[3] - Box(OuterFramePoints(out))[1]
      /\ out.metadata.height
           = Box(OuterFramePoints(out))[4] - Box(OuterFramePoints(out))[2]

----------------------------------------------------------------------------
(* Two requests that refer to one defaults object, computed one after the
   other in either order: request is the pair of requests, defaults the
   shared object, out the pair of returned scenes, args the indices of the
   requests computed so far. *)

(* empty, well-formed ("22x2", "2x22") and malformed ("x2", "g") *)
SharedHoleOffsets ==
    { <<>>, <<"2", "2", "x", "2">>, <<"2", "x", "2", "2">>, <<"x", "2">>, <<"g">> }

SharedRequests ==
    { Request(c, "Normal", NoOption, ho, U(600), U(1105)) :
        c \in Categories, ho \in SharedHoleOffsets }

SharedDefaults == ExtendedDefaults(4, 31)

InitShared ==
    /\ request \in SharedRequests \X SharedRequests
    /\ defaults = SharedDefaults
    /\ out = << NoOutput, NoOutput >>
    /\ args = <<>>
    /\ calls = 0

(* the request object of request i with the defaults object d *)
SharedRequestObject(i, d) ==
    [ door |-> request[i].door, dimensions |-> request[i].dimensions,
      metadata |-> request[i].metadata, defaults |-> d ]

(* compute_door_geometry(request[i]) with the default arguments *)
ComputeShared(i) ==
    /\ \A k \in 1..Len(args) : args[k] # i
    /\ LET res == compute_door_geometry(SharedRequestObject(i, defaults),
                                        FALSE, <<0, 0>>)
       IN  /\ out' = [ out EXCEPT ![i] = res ]
           /\ defaults' = res.defaults
    /\ args' = Append(args, i)
    /\ calls' = calls + 1
    /\ UNCHANGED request

NextShared == \E i \in 1..2 : ComputeShared(i)

SpecShared == InitShared /\ [][NextShared]_vars

(* the returned scene: everything but the defaults object carried along *)
Scene(o) == [ f \in (DOMAIN o) \ { "defaults" } |-> o[f] ]

(* the scene of request i computed alone, with the defaults as configured *)
SceneAlone(i) ==
    Scene(compute_door_geometry(SharedRequestObject(i, SharedDefaults),
                                FALSE, <<0, 0>>))

(* C27: for any two requests that share one defaults record, the scene
   returned for each request is the same whichever of the two is computed
   first, and the same as when it is computed alone; a well-formed
   hole_offset on one request does not change the holes computed for the
   other. *)
C27_InvocationsIndependent ==
    \A k \in 1..Len(args) : Scene(out[args[k]]) = SceneAlone(args[k])

----------------------------------------------------------------------------
(* the canonical tokens, and the synonym the resolver lists for each *)
CanonicalTokens == { "Option1", "Option2", "Option3", "Option4", "Option5" }

CanonicalOf(option) ==
    CHOOSE t \in CanonicalTokens : StripLower(t) = StripLower(option)

SynonymOf(token) ==
    CASE token = "Option1" -> "standard"
      [] token = "Option2" -> "topfixed"
      [] token = "Option3" -> "bottomfixed"
      [] token = "Option4" -> "standard_double"
      [] token = "Option5" -> "fourglass"

IsCanonical(option) == \E t \in CanonicalTokens : StripLower(t) = StripLower(option)

(* the cutouts of the request of the state with its option replaced *)
LocalCutoutsWithOption(option) ==
    generate_cutouts([ LocalParams EXCEPT !.door.option = option ], defaults,
                     LocalFrames, LocalHandles)

(* C28: the Cutout Composer's option resolver maps "OptionN", N in 1..5,
   in any letter case and with surrounding whitespace, to OptionN, as it
   maps the corresponding synonym, so that the cutouts composed for
   "OptionN" are those composed for its synonym. *)
C28_CanonicalTokensResolve ==
    (calls > 0 /\ PrepareError(RequestObject) = ""
       /\ IsCanonical(request.door.option)) =>
      /\ ResolveOption(request.door.option) = CanonicalOf(request.door.option)
      /\ ResolveOption(SynonymOf(CanonicalOf(request.door.option)))
           = CanonicalOf(request.door.option)
      /\ LocalCutouts
           = LocalCutoutsWithOption(SynonymOf(CanonicalOf(request.door.option)))

----------------------------------------------------------------------------
(* the glass cutouts composed for the request of the state, in order *)
LocalGlass == SelectSeq(LocalCutouts, IsGlassCutout)

NamedRight(c) == c.name \in { "glass_bottom_right", "glass_top_right" }

NamedLeft(c) == c.name \in { "glass_bottom_left", "glass_top_left" }

(* C29: for every Double Fire door with Option1 or Option4 exactly two
   glass cutouts are produced, each leaf_width - 2 * fire_glass_lr_margin
   wide, one over the right leaf (frame outer) with a name ending in
   _right and one over the left leaf (frame left_outer) with a name ending
   in _left. *)
C29_PerLeafGlassNamedByLeaf ==
    ( /\ calls > 0
      /\ PrepareError(RequestObject) = ""
      /\ IsDouble(request.door)
      /\ IsFire(request.door)
      /\ ResolveOption(request.door.option) \in { "Option1", "Option4" } )
      => /\ Len(LocalGlass) = 2
         /\ \A i \in 1..Len(LocalGlass) :
              Box(LocalGlass[i].points)[3] - Box(LocalGlass[i].points)[1]
                = LocalParams.leaf_width - 2 * defaults.fire_glass_lr_margin
         /\ \E i \in 1..Len(LocalGlass) :
              /\ OverLeaf(Box(LocalGlass[i].points), Box(LocalFrames.outer))
              /\ NamedRight(LocalGlass[i])
         /\ \E i \in 1..Len(LocalGlass) :
              /\ OverLeaf(Box(LocalGlass[i].points), Box(LocalFrames.left_outer))
              /\ NamedLeft(LocalGlass[i])

----------------------------------------------------------------------------
(* door_utils.get_door_rectangles: args holds the DataFrame and
   fixed_params, defaults the object DefaultInfo() yields (the class as
   declared, or one that also declares the two double-door fields that
   prepare_dimensions reads), out the returned list of rectangles. *)

RunRequired == { "Y", "N" }

(* a row of the DataFrame: the margins are 25/25/25/0 and the Fire Option
   and Hole Offset cells are empty *)
Rows ==
    [ run_required : RunRequired, door_name : { "D1" },
      door_type : Categories, door_sub_type : Types,
      frame_width : { wh[1] : wh \in ValidDims \cup InvalidDims },
      frame_height : { wh[2] : wh \in ValidDims \cup InvalidDims } ]

DataFrames == { <<row>> : row \in Rows }

(* fixed_params: empty, or overriding bending_width *)
FixedParams == { <<>>, [ f \in { "bending_width" } |-> U(40) ] }

Override(fixed_params, field, value) ==
    IF field \in DOMAIN fixed_params THEN fixed_params[field] ELSE value

(* the DefaultInfo built for a row, lines 64-76 *)
RowDefaults(d, fixed_params) ==
    [ d EXCEPT
        !.door_minus_measurement_width =
            Override(fixed_params, "door_minus_measurement_width", @),
        !.door_minus_measurement_height =
            Override(fixed_params, "door_minus_measurement_height", @),
        !.bending_width = Override(fixed_params, "bending_width", @),
        !.bending_height = Override(fixed_params, "bending_height", @) ]

(* f"{door_name}.dxf" *)
FileName(door_name) == IF door_name = "D1" THEN "D1.dxf" ELSE "door.dxf"

(* the DoorDXFRequest built for a row, lines 47-99 *)
RowRequest(row, d, fixed_params) ==
    [ door |-> [ category |-> row.door_type, type |-> row.door_sub_type,
                 option |-> NoOption, hole_offset |-> <<>> ],
      dimensions |-> [ width_measurement |-> row.frame_width,
                       height_measurement |-> row.frame_height,
                       left_side_allowance_width |-> U(25),
                       right_side_allowance_width |-> U(25),
                       top_side_allowance_height |-> U(25),
                       bottom_side_allowance_height |-> U(0) ],
      metadata |-> [ label |-> row.door_name,
                     file_name |-> FileName(row.door_name) ],
      defaults |-> RowDefaults(d, fixed_params) ]

(* the row is skipped: not marked for run, or prepare_dimensions raises *)
RowSkipped(row, d, fixed_params) ==
    \/ row.run_required # "Y"
    \/ PrepareError(RowRequest(row, d, fixed_params)) # ""

(* (outer_width, outer_height, file_name), lines 111-127 *)
RowRectangle(row, d, fixed_params) ==
    LET params == PrepareParams(RowRequest(row, d, fixed_params))
        bending_w == IF params.is_double THEN params.bending_width_double_door
                     ELSE params.bending_width
    IN  << params.inner_width + bending_w,
           params.inner_height + params.bending_height,
           FileName(row.door_name) >>

RECURSIVE get_door_rectangles(_, _, _)
get_door_rectangles(df, d, fixed_params) ==
    IF df = <<>> THEN <<>>
    ELSE (IF RowSkipped(Head(df), d, fixed_params) THEN <<>>
          ELSE << RowRectangle(Head(df), d, fixed_params) >>)
           \o get_door_rectangles(Tail(df), d, fixed_params)

InitRows ==
    /\ request = Request("Single", "Normal", NoOption, <<>>, U(600), U(1105))
    /\ defaults \in { DefaultInfo, ExtendedDefaults(4, 31) }
    /\ out = <<>>
    /\ args \in [ df : DataFrames, fixed_params : FixedParams ]
    /\ calls = 0

GetDoorRectangles ==
    /\ calls = 0
    /\ out' = get_door_rectangles(args.df, defaults, args.fixed_params)
    /\ calls' = 1
    /\ UNCHANGED << request, defaults, args >>

NextRows == GetDoorRectangles

SpecRows == InitRows /\ [][NextRows]_vars

(* the scene compute_door_geometry returns for the request of the row,
   with rotated = false *)
RowScene(row) ==
    compute_door_geometry(RowRequest(row, defaults, args.fixed_params),
                          FALSE, <<0, 0>>)

(* C30: for every row accepted by get_door_rectangles the rectangle
   (outer_width, outer_height) handed to the bin packer is at least as wide
   and as high as the bounding box of the frame polygons that
   compute_door_geometry returns for the same request with
   rotated = false. *)
C30_RectangleCoversScene ==
    (calls > 0 /\ out # <<>>) =>
      /\ RowScene(args.df[1]).status = "ok"
      /\ out[1][1] >= Box(FramePoints(RowScene(args.df[1])))[3]
                        - Box(FramePoints(RowScene(args.df[1])))[1]
      /\ out[1][2] >= Box(FramePoints(RowScene(args.df[1])))[4]
                        - Box(FramePoints(RowScene(args.df[1])))[2]

====
